---- MODULE Spec2Model ----
(***************************************************************************)
(* Model of the boids simulation kernel of src/src/main.rs.                *)
(*                                                                         *)
(* Numbers.  The program computes in f32.  The model computes in fixed     *)
(* point: quaternion components and unit-vector components are integers    *)
(* in units of 1/ONE, positions are integers in units of 1/POS of a world  *)
(* unit, elapsed time is an integer number of 1/TICKS_PER_SECOND seconds.  *)
(* Every division rounds to nearest, as an f32 operation does.             *)
(*                                                                         *)
(* All motion is planar: positions have z = 0 and every rotation is about  *)
(* the z axis, so a Vec3 is modelled by its (x, y) and a Quat by its       *)
(* (z, w); the components left out are 0 in every reachable state.         *)
(***************************************************************************)
EXTENDS Integers, Sequences, FiniteSets

\* Fixed-point resolution of an f32 quaternion / unit-vector component.
ONE == 1000

\* Fixed-point resolution of an f32 position component (tenths of a unit).
POS == 10

\* Resolution of time.delta_seconds(): 1/600 s, so that 1/60 s = 10.
TICKS_PER_SECOND == 600

\* Scale of the summands of the avoidance vector, each of length <= 1 unit.
AVOID_SCALE == 10000

------------------------------------------------------------------------------
(* f32 arithmetic helpers *)

Abs(a) == IF a < 0 THEN -a ELSE a

\* a / b rounded to nearest, for b > 0.
RDiv(a, b) == IF a >= 0 THEN (2 * a + b) \div (2 * b)
                        ELSE -((2 * (-a) + b) \div (2 * b))

RECURSIVE SqrtIter(_, _)
SqrtIter(n, r) ==
  LET r2 == (r + n \div r) \div 2
  IN  IF r2 >= r THEN r ELSE SqrtIter(n, r2)

\* f32::sqrt, rounded to nearest.
Sqrt(n) ==
  IF n <= 0 THEN 0
  ELSE LET r == SqrtIter(n, 46340)
       IN  IF n - r * r > r THEN r + 1 ELSE r

------------------------------------------------------------------------------
(* glam Vec3 *)

Vec(x, y) == [x |-> x, y |-> y]

VZERO == Vec(0, 0)

VAdd(u, v) == Vec(u.x + v.x, u.y + v.y)

VSub(u, v) == Vec(u.x - v.x, u.y - v.y)

Dot(u, v) == u.x * v.x + u.y * v.y

\* z component of u x v (the only one that is not 0 for planar u, v).
Cross(u, v) == u.x * v.y - u.y * v.x

LengthSquared(v) == Dot(v, v)

\* v / |v| in units of 1/ONE; only used for v # 0.  A float keeps its
\* relative precision whatever its magnitude: a short v is scaled up first.
VNormalize(v) ==
  LET m == IF Abs(v.x) > Abs(v.y) THEN Abs(v.x) ELSE Abs(v.y)
      k == IF m < 10 * ONE THEN (10 * ONE) \div m ELSE 1
      len == Sqrt(LengthSquared(Vec(k * v.x, k * v.y)))
  IN  Vec(RDiv(k * v.x * ONE, len), RDiv(k * v.y * ONE, len))

\* Vec3::angle_between(u, v) is acos(dot / sqrt(|u|^2 |v|^2)): 0/0 = NaN
\* when either vector is zero.
AngleIsNaN(u, v) == u = VZERO \/ v = VZERO

\* cos of Vec3::angle_between(u, v) in 1/ONE, for non-zero u, v.
CosAngleBetween(u, v) ==
  LET c == RDiv(Dot(VNormalize(u), VNormalize(v)), ONE)
  IN  IF c > ONE THEN ONE ELSE IF c < -ONE THEN -ONE ELSE c

------------------------------------------------------------------------------
(* glam Quat *)

Quat(z, w) == [z |-> z, w |-> w]

IDENTITY == Quat(0, ONE)

\* Quat::from_rotation_z(PI) = (0, 0, sin(PI/2), cos(PI/2)).
ROTATION_Z_PI == Quat(ONE, 0)

\* The f32 NaN quaternion (normalize of a zero quaternion).
QNAN == Quat(0, 0)

QAdd(p, q) == Quat(p.z + q.z, p.w + q.w)

QScale(q, k) == Quat(q.z * k, q.w * k)

\* Hamilton product of two rotations about z, without the division by ONE.
QMulRaw(p, q) == Quat(p.w * q.z + p.z * q.w, p.w * q.w - p.z * q.z)

\* Quat::mul_quat.
QMul(p, q) ==
  LET r == QMulRaw(p, q) IN Quat(RDiv(r.z, ONE), RDiv(r.w, ONE))

\* Quat::normalize.
QNormalize(q) ==
  LET len == Sqrt(q.z * q.z + q.w * q.w)
  IN  IF len = 0 THEN QNAN
      ELSE Quat(RDiv(q.z * ONE, len), RDiv(q.w * ONE, len))

\* Quat::mul_vec3 for a rotation about z and a planar v:
\*   v * (w^2 - b.b) + b * (v.b * 2) + b x v * (2 w),  b = (0, 0, z).
\* v is in whole units, the result in units of 1/ONE.
MulVec3(q, v) ==
  LET d == q.w * q.w - q.z * q.z
      e == 2 * q.w * q.z
  IN  Vec(RDiv(v.x * d - v.y * e, ONE),
          RDiv(v.y * d + v.x * e, ONE))

\* Quat::is_near_identity: 2 acos(|w|) < 0.0028471446, that is
\* |w| > 0.999998987, which at this resolution is |w| >= ONE.
IsNearIdentity(q) == Abs(q.w) >= ONE

------------------------------------------------------------------------------
(* main.rs: constants and pure functions *)

BASE_DIRECTION == Vec(0, 1)

VELOCITY == 100

\* 50.0 * 50.0 square units, in square position units.
NEIGHBOR_DISTANCE_SQUARED == 50 * 50 * POS * POS

\* cos(2.79) = -0.93883 in 1/ONE: angle < NEIGHBOR_ANGLE iff cos > this.
NEIGHBOR_ANGLE_COS == -939

\* Arena half extents of move_boids, in position units.
BOUND_X == 500 * POS

BOUND_Y == 250 * POS

\* diff_as_quat(from, to); coin is the value rand::random() returns if it
\* is called.  The axis from x to normalizes to NaN exactly when the cross
\* product is zero (parallel, anti-parallel or zero vectors).
diff_as_quat(from, to, coin) ==
  LET rotation_axis == Cross(from, to)
      c == CosAngleBetween(from, to)
      half_sin == Sqrt(RDiv(ONE * (ONE - c), 2))
      half_cos == Sqrt(RDiv(ONE * (ONE + c), 2))
      q == QNormalize(Quat(IF rotation_axis < 0 THEN -half_sin ELSE half_sin,
                           half_cos))
  IN  IF rotation_axis = 0 \/ AngleIsNaN(from, to) \/ IsNearIdentity(q)
      THEN IF coin THEN IDENTITY ELSE ROTATION_Z_PI
      ELSE q

Boid(position, rotation) == [position |-> position, rotation |-> rotation]

\* Mutant of is_neighbor: the angle criterion is dropped, so that a boid,
\* at distance 0 from itself, is its own neighbour.
is_neighbor_distance_only(me, other) ==
  LengthSquared(VSub(other.position, me.position)) < NEIGHBOR_DISTANCE_SQUARED

is_neighbor(me, other) ==
  LET direction == VSub(other.position, me.position)
      forward == MulVec3(me.rotation, BASE_DIRECTION)
  IN  /\ LengthSquared(direction) < NEIGHBOR_DISTANCE_SQUARED
      /\ ~AngleIsNaN(forward, direction)
      /\ CosAngleBetween(forward, direction) > NEIGHBOR_ANGLE_COS

\* Sum of a sequence of Vec3 / of Quat (Iterator::sum).
RECURSIVE VSum(_)
VSum(vs) == IF vs = <<>> THEN VZERO ELSE VAdd(Head(vs), VSum(Tail(vs)))

RECURSIVE QSum(_)
QSum(qs) == IF qs = <<>> THEN Quat(0, 0) ELSE QAdd(Head(qs), QSum(Tail(qs)))

\* The indices, in store order, of the neighbours of boid i (lines 124-129).
RECURSIVE NeighborsFrom(_, _, _)
NeighborsFrom(bs, i, k) ==
  IF k > Len(bs) THEN <<>>
  ELSE IF is_neighbor(bs[i], bs[k])
       THEN <<k>> \o NeighborsFrom(bs, i, k + 1)
       ELSE NeighborsFrom(bs, i, k + 1)

Neighbors(bs, i) == NeighborsFrom(bs, i, 1)

\* One summand of the avoidance vector (lines 140-147), in 1/AVOID_SCALE:
\* (boid - b) / max(|boid - b|^2, 1) when b is closer than half the
\* neighbour distance, zero otherwise.
AvoidTerm(boid, b) ==
  LET d == VSub(boid.position, b.position)
      l2 == LengthSquared(d)
      den == IF l2 > POS * POS THEN l2 ELSE POS * POS
  IN  IF 4 * l2 < NEIGHBOR_DISTANCE_SQUARED
      THEN Vec(RDiv(d.x * POS * AVOID_SCALE, den),
               RDiv(d.y * POS * AVOID_SCALE, den))
      ELSE VZERO

\* The entry the compute loop pushes for boid i (lines 124-155); coin1 and
\* coin2 are what rand::random() returns in the two calls of diff_as_quat.
UpdateOf(bs, i, coin1, coin2) ==
  LET boid == bs[i]
      neighbors == Neighbors(bs, i)
      n == Len(neighbors)
      vel == MulVec3(boid.rotation, BASE_DIRECTION)
      sum_pos == VSum([k \in 1..n |-> bs[neighbors[k]].position])
      avg_pos == Vec(RDiv(sum_pos.x, n), RDiv(sum_pos.y, n))
      convergence == diff_as_quat(vel, VSub(avg_pos, boid.position), coin1)
      avoid_vec == VSum([k \in 1..n |-> AvoidTerm(boid, bs[neighbors[k]])])
      avoidance == diff_as_quat(vel, avoid_vec, coin2)
      sum_rot == QSum([k \in 1..n |-> bs[neighbors[k]].rotation])
      avg_rot == Quat(RDiv(sum_rot.z, n), RDiv(sum_rot.w, n))
  IN  IF n = 0
      THEN [upd |-> IDENTITY, avg_rot |-> boid.rotation]
      ELSE [upd |-> QNormalize(QAdd(QScale(convergence, 10),
                                    QScale(avoidance, 11))),
            avg_rot |-> avg_rot]

\* Mutant of ComputeIter: the update is committed to the store in place, as
\* soon as it is computed.
ComputeIterInPlace(bs, upds, i, coin1, coin2) ==
  LET u == UpdateOf(bs, i, coin1, coin2)
      nudged == QMulRaw(bs[i].rotation, u.upd)
      blend == QAdd(QScale(nudged, 19), QScale(u.avg_rot, 100 * ONE))
  IN  [store |-> [bs EXCEPT ![i].rotation =
                    QNormalize(Quat(RDiv(blend.z, 10 * ONE),
                                    RDiv(blend.w, 10 * ONE)))],
       updates |-> Append(upds, u)]

\* Mutant of ComputeIter: a boid without neighbours is skipped (continue
\* without the push of the null update).
ComputeIterSkipEmpty(bs, upds, i, coin1, coin2) ==
  [store |-> bs,
   updates |-> IF Neighbors(bs, i) = <<>> THEN upds
               ELSE Append(upds, UpdateOf(bs, i, coin1, coin2))]

\* One iteration of the compute loop (lines 123-156) for boid i: the store
\* is borrowed shared and is not written, one entry is pushed to updates.
ComputeIter(bs, upds, i, coin1, coin2) ==
  [store |-> bs, updates |-> Append(upds, UpdateOf(bs, i, coin1, coin2))]

\* One iteration of the commit loop (lines 159-160):
\*   rotation *= upd / 100;  rotation = (rotation * 0.95 + avg_rot * 0.05).normalize()
\* The sum 0.0095 (rotation x upd) + 0.05 avg_rot is computed times 2000 ONE
\* (so that no digit is lost to the small factors) and then normalized.
CommitOne(boid, u) ==
  LET nudged == QMulRaw(boid.rotation, u.upd)
      blend == QAdd(QScale(nudged, 19), QScale(u.avg_rot, 100 * ONE))
  IN  [boid EXCEPT !.rotation =
         QNormalize(Quat(RDiv(blend.z, 10 * ONE), RDiv(blend.w, 10 * ONE)))]

\* The commit loop (lines 158-161): zip stops at the shorter of the two.
CommitAll(bs, upds) ==
  [k \in 1..Len(bs) |->
     IF k <= Len(upds) THEN CommitOne(bs[k], upds[k]) ELSE bs[k]]

\* Mutant of OutOfBounds: && in place of ||.
OutOfBoundsBoth(position) ==
  Abs(position.x) > BOUND_X /\ Abs(position.y) > BOUND_Y

\* Mutant of Damp: the damping is left out.
DampNone(p) == p

\* Mutant of Damp: division in place of multiplication.
DampDivide(p) == RDiv(10 * p, 9)

\* A position component after velocity * delta_seconds has been added.
Advance(p, v, delta) ==
  p + RDiv(v * delta, (ONE * TICKS_PER_SECOND) \div POS)

OutOfBounds(position) ==
  Abs(position.x) > BOUND_X \/ Abs(position.y) > BOUND_Y

\* The position of a boid after lines 76-78, before the boundary rule.
Integrated(boid, delta) ==
  LET velocity == MulVec3(boid.rotation,
                          Vec(BASE_DIRECTION.x * VELOCITY,
                              BASE_DIRECTION.y * VELOCITY))
  IN  Vec(Advance(boid.position.x, velocity.x, delta),
          Advance(boid.position.y, velocity.y, delta))

\* x *= 0.9
Damp(p) == RDiv(9 * p, 10)

\* Mutant of MoveOne: the 180 degree rotation is applied whether or not
\* the boid is out of bounds.
MoveOneAlwaysFlip(boid, delta) ==
  LET p == Integrated(boid, delta)
  IN  Boid(Vec(IF Abs(p.x) > BOUND_X THEN Damp(p.x) ELSE p.x,
               IF Abs(p.y) > BOUND_Y THEN Damp(p.y) ELSE p.y),
           QMul(boid.rotation, ROTATION_Z_PI))

\* The body of the loop of move_boids (lines 76-89).
MoveOne(boid, delta) ==
  LET p == Integrated(boid, delta)
  IN  Boid(Vec(IF Abs(p.x) > BOUND_X THEN Damp(p.x) ELSE p.x,
               IF Abs(p.y) > BOUND_Y THEN Damp(p.y) ELSE p.y),
           IF OutOfBounds(p)
           THEN QMul(boid.rotation, ROTATION_Z_PI)
           ELSE boid.rotation)

\* move_boids (lines 74-91).
MoveAll(bs, delta) == [k \in 1..Len(bs) |-> MoveOne(bs[k], delta)]

------------------------------------------------------------------------------
(* Bounds of the model *)

\* Number of boids in the store (the program pushes 300).
MaxBoids == 2

\* Frames explored, counted in boid steps: a store of n boids is followed
\* for the frames f with f * n <= MaxBoidFrames.
MaxBoidFrames == 6

\* Values of time.delta_seconds(): 1/60 s, 1/30 s, and a stalled frame of
\* 2.455 s (from x = 499 it carries a boid to where the next frames put it
\* at x = 600, the placement of scenario S5).
Deltas == {10, 20, 1473}

\* Sample of the positions add_boids draws (x in (-500, 500], y in (-250, 250]).
InitPositions == {Vec(0, 0), Vec(0, 200), Vec(4990, 0)}

\* Sample of the (vel_x, vel_y) add_boids draws, as directions.
InitVelocities == {Vec(0, 1), Vec(1, 0)}

------------------------------------------------------------------------------
(* State *)

VARIABLES
  boids,     \* Boids.0: the store, a sequence of Boid
  updates,   \* the local Vec updates of update_direction_of_boids
  idx,       \* index of the next boid of the compute loop
  pc,        \* "idle" between frames, "sched" in the Update schedule,
             \* "compute" / "commit" inside update_direction_of_boids
  order,     \* the order the built Update schedule runs its two systems in
  ran,       \* the systems of the Update schedule that ran in this frame
  delta,     \* time.delta_seconds() of this frame
  ticks,     \* number of frames started
  snap,      \* history: the store when update_direction_of_boids last started
  premove,   \* history: the store when move_boids last started
  tick0,     \* history: the store when this frame started
  maxDelta,  \* history: the largest delta of any frame so far
  twin,      \* TwinSpec: the store the other run of the program holds
  replay     \* TwinSpec: frames of the first run the second has to repeat,
             \* 0 while the first run is going

vars == <<boids, updates, idx, pc, order, ran, delta, ticks, snap, premove, tick0,
          maxDelta, twin, replay>>

Systems == {"update_direction_of_boids", "move_boids"}

\* add_systems(Update, (update_direction_of_boids, move_boids)) (line 170)
\* adds the two systems without .chain() or .before(): both take
\* ResMut<Boids>, so they never overlap, but which runs first is left to the
\* schedule, which settles it when it is built.
ScheduleOrders ==
  { <<"update_direction_of_boids", "move_boids">>,
    <<"move_boids", "update_direction_of_boids">> }

\* The boids add_boids can push (lines 47-53) from the sampled draws.
InitBoids ==
  { Boid(p, diff_as_quat(BASE_DIRECTION, v, coin)) :
      p \in InitPositions, v \in InitVelocities, coin \in BOOLEAN }

\* The state after Startup (add_boids) and before the first frame.
Init ==
  /\ boids \in UNION { [1..n -> InitBoids] : n \in 1..MaxBoids }
  /\ updates = <<>>
  /\ idx = 1
  /\ pc = "idle"
  /\ order \in ScheduleOrders
  /\ ran = {}
  /\ delta = 0
  /\ ticks = 0
  /\ snap = boids
  /\ premove = boids
  /\ tick0 = boids
  /\ maxDelta = 0
  /\ twin = boids
  /\ replay = 0

------------------------------------------------------------------------------
(* The Update schedule *)

\* The system the schedule runs next in this frame.
NextSystem == order[Cardinality(ran) + 1]

AfterSystem(s) == IF ran \cup {s} = Systems THEN "idle" ELSE "sched"

\* A frame begins: the host loop runs the Update schedule.
RunSchedule(d) ==
  /\ pc = "idle"
  /\ (ticks + 1) * Len(boids) <= MaxBoidFrames
  /\ delta' = d
  /\ maxDelta' = IF d > maxDelta THEN d ELSE maxDelta
  /\ pc' = "sched"
  /\ ran' = {}
  /\ ticks' = ticks + 1
  /\ tick0' = boids
  /\ UNCHANGED <<boids, updates, idx, order, snap, premove, twin, replay>>

FrameBegin == \E d \in Deltas : RunSchedule(d)

\* update_direction_of_boids starts (line 122).
SteerBegin ==
  /\ pc = "sched"
  /\ NextSystem = "update_direction_of_boids"
  /\ pc' = "compute"
  /\ updates' = <<>>
  /\ idx' = 1
  /\ snap' = boids
  /\ UNCHANGED <<boids, order, ran, delta, ticks, premove, tick0, maxDelta, twin,
                 replay>>

\* One iteration of the compute loop (lines 123-156).
SteerCompute ==
  /\ pc = "compute"
  /\ \E coin1 \in BOOLEAN, coin2 \in BOOLEAN :
        LET r == ComputeIter(boids, updates, idx, coin1, coin2)
        IN  /\ boids' = r.store
            /\ updates' = r.updates
  /\ idx' = idx + 1
  /\ pc' = IF idx = Len(boids) THEN "commit" ELSE "compute"
  /\ UNCHANGED <<order, ran, delta, ticks, snap, premove, tick0, maxDelta, twin,
                 replay>>

\* The commit loop (lines 158-161) and the return of the system.
SteerCommit ==
  /\ pc = "commit"
  /\ boids' = CommitAll(boids, updates)
  /\ ran' = ran \cup {"update_direction_of_boids"}
  /\ pc' = AfterSystem("update_direction_of_boids")
  /\ UNCHANGED <<updates, idx, order, delta, ticks, snap, premove, tick0,
                 maxDelta, twin, replay>>

\* move_boids (lines 74-91).
Move ==
  /\ pc = "sched"
  /\ NextSystem = "move_boids"
  /\ premove' = boids
  /\ boids' = MoveAll(boids, delta)
  /\ ran' = ran \cup {"move_boids"}
  /\ pc' = AfterSystem("move_boids")
  /\ UNCHANGED <<updates, idx, order, delta, ticks, snap, tick0, maxDelta,
                 twin, replay>>

Next == FrameBegin \/ SteerBegin \/ SteerCompute \/ SteerCommit \/ Move

Spec == Init /\ [][Next]_vars

------------------------------------------------------------------------------
(* Two runs of the program, one after the other *)

\* A frame of a run with a fixed delta: every frame of both runs gets the
\* delta of the first frame, and the second run gets as many frames as the
\* first.
TwinFrameBegin ==
  /\ replay = 0 \/ ticks < replay
  /\ \E d \in Deltas :
       /\ (ticks = 0 /\ replay = 0) \/ d = delta
       /\ RunSchedule(d)

\* The first run ends and the same build is started again from the store
\* the first run started from: boids is now the store of the second run and
\* twin keeps the store the first run ended with.  rand::random() (line 29)
\* draws from the thread-local generator, which is seeded from the operating
\* system: the values the second run draws in SteerCompute are not tied to
\* the values the first run drew.
Rerun ==
  /\ pc = "idle"
  /\ replay = 0
  /\ ticks >= 1
  /\ boids' = twin
  /\ twin' = boids
  /\ replay' = ticks
  /\ ticks' = 0
  /\ UNCHANGED <<updates, idx, pc, order, ran, delta, snap, premove, tick0,
                 maxDelta>>

TwinNext ==
  TwinFrameBegin \/ SteerBegin \/ SteerCompute \/ SteerCommit \/ Move \/ Rerun

TwinSpec == Init /\ [][TwinNext]_vars

------------------------------------------------------------------------------
(* Properties *)

Forward(boid) == MulVec3(boid.rotation, BASE_DIRECTION)

Agents == 1..Len(boids)

Steered == "update_direction_of_boids" \in ran

Moved == "move_boids" \in ran

\* The frame is over: both systems ran.
FrameDone == pc = "idle" /\ ticks >= 1

TypeOK ==
  /\ pc \in {"idle", "sched", "compute", "commit"}
  /\ \A a \in Agents : boids[a].rotation # QNAN
  /\ ran \subseteq Systems

\* C1: while update_direction_of_boids computes its updates the store is
\* still the store the step started with (no orientation has been written),
\* every update pushed so far is the update computed from that start-of-step
\* store, and once the step has returned every orientation is the commit of
\* its update to the start-of-step orientation.
C1_DoubleBuffered ==
  /\ pc \in {"compute", "commit"} =>
       /\ boids = snap
       /\ \A a \in 1..Len(updates) :
            \E coin1 \in BOOLEAN, coin2 \in BOOLEAN :
              updates[a] = UpdateOf(snap, a, coin1, coin2)
  /\ (pc \in {"sched", "idle"} /\ Steered /\ order[Cardinality(ran)] = "update_direction_of_boids") =>
       \A a \in Agents :
         /\ \E coin1 \in BOOLEAN, coin2 \in BOOLEAN :
              updates[a] = UpdateOf(snap, a, coin1, coin2)
         /\ boids[a] = CommitOne(snap[a], updates[a])

\* C1 witness: the commit loop is about to start, boid a has a pending write
\* that changes its orientation, and another boid b, later in the store, has
\* a as a neighbour: its update was computed after a's and read a's state.
C1_Witness ==
  /\ pc = "commit"
  /\ \E a \in Agents, b \in Agents :
       /\ a < b
       /\ CommitOne(snap[a], updates[a]) # snap[a]
       /\ \E k \in 1..Len(Neighbors(snap, b)) : Neighbors(snap, b)[k] = a

\* C2: in every frame, move_boids runs only after update_direction_of_boids
\* has run to completion in that frame.
C2_SteerBeforeMove ==
  /\ Moved => Steered
  /\ pc \in {"compute", "commit"} => ~Moved

\* C3: two runs from the same initial store, after the same number of
\* frames with the same fixed delta, hold the same store.
C3_Determinism ==
  (replay > 0 /\ pc = "idle" /\ ticks = replay) => twin = boids

\* C4 as claimed: after every motion step every boid is inside the arena.
C4_InArenaAfterMove ==
  Moved => \A a \in Agents : ~OutOfBounds(boids[a].position)

\* C4 as amended: after a motion step with delta <= 1/30 s, every boid that
\* was inside the arena when the step started is inside it.
C4_InArenaSmallDelta ==
  (Moved /\ delta <= 20) =>
     \A a \in Agents :
       ~OutOfBounds(premove[a].position) => ~OutOfBounds(boids[a].position)

\* C4 witness: a motion step with delta <= 1/30 s carried a boid that was
\* inside the arena across the boundary.
C4_Witness ==
  /\ Moved
  /\ delta <= 20
  /\ \E a \in Agents :
       /\ ~OutOfBounds(premove[a].position)
       /\ OutOfBounds(Integrated(premove[a], delta))

\* C5 (P2): as long as every delta so far was <= 1/30 s, every boid has
\* |x| <= 500 / 0.9 and |y| <= 250 / 0.9.
C5_BoundedExcursion ==
  maxDelta <= 20 =>
     \A a \in Agents :
       /\ 9 * Abs(boids[a].position.x) <= 10 * BOUND_X
       /\ 9 * Abs(boids[a].position.y) <= 10 * BOUND_Y

\* C5 witness: a frame of the largest delta the claim covers, 1/30 s, is
\* over, no frame was longer, and in it a boid was integrated to a
\* position beyond the right boundary.
C5_Witness ==
  /\ FrameDone
  /\ delta = 20
  /\ maxDelta = 20
  /\ \E a \in Agents : Integrated(premove[a], delta).x > BOUND_X

\* C6 (L2): a frame of a store of one boid that does not take the boid out
\* of bounds leaves its orientation as it was when the frame started and
\* moves it by delta * VELOCITY along its forward vector.
C6_Isolation ==
  (FrameDone /\ Len(boids) = 1 /\ ~OutOfBounds(Integrated(tick0[1], delta))) =>
     /\ boids[1].rotation = tick0[1].rotation
     /\ boids[1].position = Integrated(tick0[1], delta)
     /\ updates = <<[upd |-> IDENTITY, avg_rot |-> tick0[1].rotation]>>

\* C6 witness: such a frame is over and the boid has moved.
C6_Witness ==
  /\ FrameDone
  /\ Len(boids) = 1
  /\ ~OutOfBounds(Integrated(tick0[1], delta))
  /\ boids[1].position # tick0[1].position
  /\ Forward(boids[1]) = Vec(ONE, 0)

\* A store of one boid that started the frame on the x axis beyond the
\* right boundary, heading (1, 0), and the frame, of 1/60 s, is over.
S5_Frame ==
  /\ FrameDone
  /\ Len(boids) = 1
  /\ delta = 10
  /\ tick0[1].position.x > BOUND_X
  /\ tick0[1].position.y = 0
  /\ Forward(tick0[1]) = Vec(ONE, 0)

\* C7 as claimed (scenario S5): from (600, 0) heading (1, 0), one frame of
\* 1/60 s ends at x = 600 * 0.9 = 540, y unchanged, orientation composed
\* once with the 180 degree rotation about z, heading (-1, 0).
C7_S5_StartTimes09 ==
  (S5_Frame /\ tick0[1].position.x = 600 * POS) =>
     /\ boids[1].position = Vec(540 * POS, 0)
     /\ boids[1].rotation = QMul(tick0[1].rotation, ROTATION_Z_PI)
     /\ Forward(boids[1]) = Vec(-ONE, 0)

\* C7 as amended: it is the integrated x, start + 100/60 (1.7 at this
\* resolution), that is multiplied by 0.9: from (600, 0) the frame ends at
\* x = 541.5; y is unchanged and the orientation is composed once with the
\* 180 degree rotation about z, heading (-1, 0).
C7_S5_IntegratedTimes09 ==
  S5_Frame =>
     /\ boids[1].position = Vec(RDiv(9 * (tick0[1].position.x + 17), 10), 0)
     /\ tick0[1].position.x = 600 * POS => boids[1].position.x = 5415
     /\ boids[1].rotation = QMul(tick0[1].rotation, ROTATION_Z_PI)
     /\ Forward(boids[1]) = Vec(-ONE, 0)

\* C7 witness: the frame of scenario S5 itself, from (600, 0).
C7_Witness == S5_Frame /\ tick0[1].position.x = 600 * POS

\* C8: when a frame is over (the next frame starts from this state), every
\* boid that the motion step of the frame integrated to a position out of
\* bounds has that coordinate scaled by 0.9 and heads inward on that axis.
\* Stated for the frames in which the motion step ran last, so that nothing
\* has touched the orientation since.
C8_InwardAfterExit ==
  (FrameDone /\ order[2] = "move_boids") =>
    \A a \in Agents :
      LET p == Integrated(premove[a], delta)
          f == Forward(boids[a])
      IN  /\ p.x > BOUND_X => boids[a].position.x = Damp(p.x) /\ f.x < 0
          /\ p.x < -BOUND_X => boids[a].position.x = Damp(p.x) /\ f.x > 0
          /\ p.y > BOUND_Y => boids[a].position.y = Damp(p.y) /\ f.y < 0
          /\ p.y < -BOUND_Y => boids[a].position.y = Damp(p.y) /\ f.y > 0

\* C9: no step changes the number of boids; a step of
\* update_direction_of_boids leaves every position unchanged; move_boids
\* leaves unchanged the orientation of every boid it integrates to a
\* position inside the arena, and puts that boid, at its index, there.
C9_WriteSets ==
  [][ /\ Len(boids') = Len(boids)
      /\ pc \in {"compute", "commit"} =>
           \A a \in Agents : boids'[a].position = boids[a].position
      /\ (pc = "sched" /\ NextSystem = "move_boids") =>
           \A a \in Agents :
             ~OutOfBounds(Integrated(boids[a], delta)) =>
               /\ boids'[a].rotation = boids[a].rotation
               /\ boids'[a].position = Integrated(boids[a], delta)
    ]_vars

\* C9 witness: a frame is over in which the steering step changed an
\* orientation and the motion step moved a boid that stayed inside.
C9_Witness ==
  /\ FrameDone
  /\ \E a \in Agents : CommitOne(snap[a], updates[a]).rotation # snap[a].rotation
  /\ \E a \in Agents :
       /\ ~OutOfBounds(Integrated(premove[a], delta))
       /\ boids[a].position # premove[a].position

\* C10: when the commit loop starts, updates holds one entry per boid, in
\* store order, the entry of a boid without neighbours being (IDENTITY, its
\* own orientation); and when the step has returned, boid i holds the commit
\* of entry i.
C10_OneUpdatePerBoid ==
  /\ pc = "commit" =>
       /\ Len(updates) = Len(boids)
       /\ \A a \in Agents :
            Neighbors(snap, a) = <<>> =>
              updates[a] = [upd |-> IDENTITY, avg_rot |-> snap[a].rotation]
  /\ (pc \in {"sched", "idle"} /\ Steered /\ order[Cardinality(ran)] = "update_direction_of_boids") =>
       /\ Len(updates) = Len(boids)
       /\ \A a \in Agents : boids[a].rotation = CommitOne(snap[a], updates[a]).rotation

\* C10 witness: the commit loop starts on a store in which a boid without
\* neighbours comes before a boid with neighbours.
C10_Witness ==
  /\ pc = "commit"
  /\ \E a \in Agents, b \in Agents :
       /\ a < b
       /\ Neighbors(snap, a) = <<>>
       /\ Neighbors(snap, b) # <<>>

====
